---- MODULE Spec2Model ----
(***************************************************************************)
(* State-machine model of src/src/App.jsx: the two App components of the   *)
(* coconut-risk calculator.                                                *)
(*                                                                         *)
(*   variant = "trend"  : App of lines 61-321  (windSpeed, windHistory,    *)
(*                        coconutProbability with a Math.random term)      *)
(*   variant = "multi"  : App of lines 337-448 (weatherData, manual tree   *)
(*                        override, calculateDanger)                       *)
(*                                                                         *)
(* JavaScript runs the component on one thread: every handler, and every   *)
(* stretch of fetchData between two awaits, is one atomic action.  The     *)
(* two awaits of a request (fetch, then res.json()) write no state in      *)
(* between and are one action whose outcome says which of them failed.     *)
(***************************************************************************)
EXTENDS Integers, Sequences, FiniteSets, TLC

VARIABLES
  variant,        \* which App component is mounted (fixed after Init)
  coords,         \* useState(null)            lines 62 / 339
  windSpeed,      \* useState(null)            line 63   (trend)
  weatherData,    \* useState(null)            line 340  (multi)
  treeDensity,    \* useState(null) / useState(5)  lines 64 / 341
  timeExposure,   \* useState(30)              lines 65 / 342
  manualLat,      \* useState("")              lines 66 / 343
  manualLon,      \* useState("")              lines 67 / 344
  useManual,      \* useManual / useManualCoords    lines 68 / 345
  useManualTrees, \* useState(false)           line 346  (multi)
  isLoading,      \* useState(false)           lines 69 / 347
  windHistory,    \* useState([])              line 70   (trend)
  factIndex,      \* useState(0)               line 71   (trend)
  rnd,            \* value of Math.random() in the last render that evaluated it (line 139)
  geoPending,     \* getCurrentPosition requests in flight, by the useManualTrees their fetchData captured
  calls,          \* fetchData invocations in flight: their arguments, closure and await position
  issued,         \* number of fetchData invocations so far (the order of issue names a call)
  limit,          \* environment: how many fetchData invocations the behaviour is followed for
  overlap,        \* environment: whether a resolution may start while another is in flight
  lastOp          \* the handler or continuation that ran last, and what it was given

vars == <<variant, coords, windSpeed, weatherData, treeDensity, timeExposure,
          manualLat, manualLon, useManual, useManualTrees, isLoading,
          windHistory, factIndex, rnd, geoPending, calls, issued, limit, overlap, lastOp>>

\* The session state the properties speak of (everything the pipeline and the user fields write).
session == <<coords, windSpeed, weatherData, treeDensity, timeExposure, isLoading, windHistory>>

(***************************************************************************)
(* Bounds of the model.                                                    *)
(***************************************************************************)
\* fetchData invocations in one behaviour; a geolocation request is issued only while
\* the calls made and the requests in flight leave room for the call it may start
MaxCalls == 2
\* the same, in the specifications that follow a single resolution
MaxSolo == 1

(***************************************************************************)
(* JavaScript values.  One record shape for all of them, so that null,     *)
(* undefined, NaN, the infinities and numbers compare without type errors. *)
(***************************************************************************)
JNull == [k |-> "null", v |-> 0]
JUndef == [k |-> "undefined", v |-> 0]
JNaN == [k |-> "NaN", v |-> 0]
JPosInf == [k |-> "Infinity", v |-> 1]
JNegInf == [k |-> "Infinity", v |-> -1]
JNum(n) == [k |-> "num", v |-> n]

IsNum(x) == x.k = "num"
\* isNaN(x) for a value that is already a number
isNaN(x) == x.k = "NaN"
\* Number.isFinite(x)
isFinite(x) == x.k = "num"
\* a > n and a < n as JavaScript evaluates them for a number n: false for undefined, null is 0
Gt(a, n) == \/ a.k = "num" /\ a.v > n
            \/ a.k = "null" /\ 0 > n
            \/ a = JPosInf
Lt(a, n) == \/ a.k = "num" /\ a.v < n
            \/ a.k = "null" /\ 0 < n
            \/ a = JNegInf

(***************************************************************************)
(* Text of the input fields: a sequence of one-character strings.          *)
(***************************************************************************)
Digits == <<"0", "1", "2", "3", "4", "5", "6", "7", "8", "9">>
IsDigit(c) == \E i \in 1..10 : Digits[i] = c
DigitVal(c) == (CHOOSE i \in 1..10 : Digits[i] = c) - 1
IsSpace(c) == c = " "

Tail2(s, n) == SubSeq(s, n + 1, Len(s))
StartsWith(s, p) == Len(s) >= Len(p) /\ SubSeq(s, 1, Len(p)) = p

RECURSIVE TrimLeft(_)
TrimLeft(s) == IF s # <<>> /\ IsSpace(s[1]) THEN TrimLeft(Tail(s)) ELSE s

\* the longest run of digits at the head of s
RECURSIVE DigitRun(_)
DigitRun(s) == IF s # <<>> /\ IsDigit(s[1]) THEN <<s[1]>> \o DigitRun(Tail(s)) ELSE <<>>

\* the value of a run of digits, saturated at cap so that "999" stays an integer of the model
RECURSIVE DigitsValue(_, _, _)
DigitsValue(ds, acc, cap) ==
  IF ds = <<>> THEN acc
  ELSE LET n == acc * 10 + DigitVal(ds[1])
       IN  DigitsValue(Tail(ds), IF n > cap THEN cap ELSE n, cap)

RECURSIVE Pow10(_)
Pow10(n) == IF n <= 0 THEN 1 ELSE 10 * Pow10(n - 1)

\* number of significant digits of a run (leading zeros dropped)
RECURSIVE SigLen(_)
SigLen(ds) == IF ds = <<>> THEN 0 ELSE IF ds[1] = "0" THEN SigLen(Tail(ds)) ELSE Len(ds)

\* Coordinates are kept in units of 10^-CoordDecimals degree (the inputs' step="0.0001").
CoordDecimals == 4
\* A double overflows to Infinity from 1.797...e308 on: decimal magnitude above this is infinite.
MaxDecimalExponent == 308
ExponentCap == 9999
\* Finite values too large for the model's integers are kept finite and saturated.
Saturated == 2000000000
FiniteDigits == 5

(***************************************************************************)
(* parseFloat (lines 130-131, 421-422): leading white space is skipped,    *)
(* then the longest prefix that is a StrDecimalLiteral is converted:       *)
(* [+-] ( Infinity | digits [. digits] [e [+-] digits] | . digits ... ).   *)
(* No such prefix: NaN.  Finite values are returned in units of            *)
(* 10^-CoordDecimals, digits beyond that precision are dropped, and a      *)
(* finite value of more than FiniteDigits integer digits is Saturated.     *)
(***************************************************************************)
parseFloat(text) ==
  LET s0 == TrimLeft(text)
      neg == s0 # <<>> /\ s0[1] = "-"
      s1 == IF s0 # <<>> /\ s0[1] \in {"+", "-"} THEN Tail(s0) ELSE s0
      ip == DigitRun(s1)
      s2 == Tail2(s1, Len(ip))
      hasDot == s2 # <<>> /\ s2[1] = "."
      fp == IF hasDot THEN DigitRun(Tail(s2)) ELSE <<>>
      s3 == IF hasDot THEN Tail2(s2, 1 + Len(fp)) ELSE s2
      hasE == s3 # <<>> /\ s3[1] \in {"e", "E"}
      s4 == IF hasE THEN Tail(s3) ELSE <<>>
      eneg == s4 # <<>> /\ s4[1] = "-"
      s5 == IF s4 # <<>> /\ s4[1] \in {"+", "-"} THEN Tail(s4) ELSE s4
      ed == DigitRun(s5)
      ex == IF hasE /\ ed # <<>>
            THEN (IF eneg THEN -1 ELSE 1) * DigitsValue(ed, 0, ExponentCap)
            ELSE 0
      mant == ip \o fp
      \* decimal position of the leading significant digit
      mag == SigLen(mant) - Len(fp) + ex
      \* value * 10^CoordDecimals = mant * 10^shift
      shift == ex - Len(fp) + CoordDecimals
      m == DigitsValue(mant, 0, Saturated)
      scaled == IF shift >= 0 THEN m * Pow10(shift) ELSE m \div Pow10(-shift)
  IN  IF StartsWith(s1, <<"I", "n", "f", "i", "n", "i", "t", "y">>)
        THEN (IF neg THEN JNegInf ELSE JPosInf)
      ELSE IF mant = <<>> THEN JNaN
      ELSE IF SigLen(mant) = 0 THEN JNum(0)
      ELSE IF mag > MaxDecimalExponent + 1 THEN (IF neg THEN JNegInf ELSE JPosInf)
      ELSE IF mag < -CoordDecimals THEN JNum(0)
      ELSE IF mag > FiniteDigits THEN JNum(IF neg THEN -Saturated ELSE Saturated)
      ELSE JNum(IF neg THEN -scaled ELSE scaled)

(***************************************************************************)
(* parseInt(text) (lines 266, 278): white space, sign, then the longest    *)
(* run of decimal digits; none: NaN.                                       *)
(***************************************************************************)
parseInt(text) ==
  LET s0 == TrimLeft(text)
      neg == s0 # <<>> /\ s0[1] = "-"
      s1 == IF s0 # <<>> /\ s0[1] \in {"+", "-"} THEN Tail(s0) ELSE s0
      ds == DigitRun(s1)
      n == DigitsValue(ds, 0, Saturated)
  IN  IF ds = <<>> THEN JNaN ELSE JNum(IF neg THEN -n ELSE n)

\* x || d for a number x: 0 and NaN are falsy
OrElse(x, d) == IF x.k = "NaN" \/ (x.k = "num" /\ x.v = 0) THEN d ELSE x.v

(***************************************************************************)
(* What the user can type.                                                 *)
(***************************************************************************)
TxtEmpty == <<>>
TxtNum == <<"9", ".", "5">>
TxtWord == <<"a", "b", "c">>
TxtHuge == <<"1", "e", "9", "9", "9">>
\* latitude field (lines 215-223) and longitude field (lines 224-232); the longitude
\* is left empty or given a number
LatTexts == {TxtNum, TxtWord, TxtHuge}
LonTexts == {TxtNum}
\* "Adjust tree count" field (lines 261-269): a negative number, zero, the field cleared
TreeTexts == {<<"-", "3">>, <<"0">>, TxtEmpty}
\* "Minutes under trees" field (lines 273-281)
ExposureTexts == {<<"-", "5">>, TxtEmpty}

(***************************************************************************)
(* The outside world.  The device reports one position; each service       *)
(* answers a request for a coordinate with that place's data, or fails in  *)
(* one of the ways listed with the responses below.                        *)
(***************************************************************************)
GeoLat == JNum(10 * Pow10(CoordDecimals))
GeoLon == JNum(76 * Pow10(CoordDecimals))

\* wind speed (m/s), rain (mm), temperature (C), relative humidity (%) at a latitude
WindAt(lat) == IF lat = GeoLat THEN 9 ELSE 4
RainAt(lat) == IF lat = GeoLat THEN 2 ELSE 0
TempAt(lat) == IF lat = GeoLat THEN 31 ELSE 20
HumidityAt(lat) == IF lat = GeoLat THEN 35 ELSE 50
\* days of hourly history the forecast service returns, two samples a day (00:00 and 12:00)
DaysAt(lat) == IF lat = GeoLat THEN 7 ELSE 2
\* tree and forest features within 1000 m
TreesAt(lat) == IF lat = GeoLat THEN 3 ELSE 7

\* hourly.time: a timestamp "<day>T<hh:mm>" is the pair of its two parts
HourlyTime(lat) ==
  [i \in 1..(2 * DaysAt(lat)) |-> <<(i + 1) \div 2, IF i % 2 = 0 THEN "12:00" ELSE "00:00">>]
HourlySpeeds(lat) ==
  [i \in 1..(2 * DaysAt(lat)) |-> WindAt(lat) + (i + 1) \div 2]
\* hours[i].endsWith("12:00") (line 99)
EndsWith1200(t) == t[2] = "12:00"

NoBlock == [has |-> FALSE, windspeed |-> JUndef]
NoHourly == [has |-> FALSE, hasTime |-> FALSE, time |-> <<>>, speeds |-> <<>>]

\* A response: kind "reject" (fetch rejects: network error), "unparsable" (res.json()
\* rejects) or "json" (a body was parsed).
Failure(kind) == [kind |-> kind, tag |-> kind]

(***************************************************************************)
(* Bodies of the forecast service, trend request (line 85).                *)
(*   full      current_weather with windspeed, hourly with time and speeds *)
(*   noBlock   neither current_weather nor hourly (an error document)      *)
(*   noWind    current_weather without windspeed, no hourly                *)
(*   noTime    current_weather, hourly.wind_speed_10m but no hourly.time   *)
(* A coordinate that is not finite gets no weather.                        *)
(***************************************************************************)
TrendBodies(lat, lon) ==
  {[kind |-> "json", tag |-> "noBlock", current_weather |-> NoBlock, hourly |-> NoHourly]}
  \cup
  (IF isFinite(lat) /\ isFinite(lon)
   THEN {[kind |-> "json", tag |-> "full",
          current_weather |-> [has |-> TRUE, windspeed |-> JNum(WindAt(lat))],
          hourly |-> [has |-> TRUE, hasTime |-> TRUE,
                      time |-> HourlyTime(lat), speeds |-> HourlySpeeds(lat)]],
         [kind |-> "json", tag |-> "noWind",
          current_weather |-> [has |-> TRUE, windspeed |-> JUndef],
          hourly |-> NoHourly],
         [kind |-> "json", tag |-> "noTime",
          current_weather |-> [has |-> TRUE, windspeed |-> JNum(WindAt(lat))],
          hourly |-> [has |-> TRUE, hasTime |-> FALSE,
                      time |-> <<>>, speeds |-> HourlySpeeds(lat)]]}
   ELSE {})

(***************************************************************************)
(* Bodies of the forecast service, multi-factor request (line 375).        *)
(***************************************************************************)
NoCurrent ==
  [has |-> FALSE, wind_speed_10m |-> JUndef, precipitation |-> JUndef, rain |-> JUndef,
   temperature_2m |-> JUndef, relative_humidity_2m |-> JUndef]
MultiBodies(lat, lon) ==
  {[kind |-> "json", tag |-> "noBlock", current |-> NoCurrent]}
  \cup
  (IF isFinite(lat) /\ isFinite(lon)
   THEN {[kind |-> "json", tag |-> "full",
          current |-> [has |-> TRUE, wind_speed_10m |-> JNum(WindAt(lat)),
                       precipitation |-> JNum(RainAt(lat)), rain |-> JNum(RainAt(lat)),
                       temperature_2m |-> JNum(TempAt(lat)),
                       relative_humidity_2m |-> JNum(HumidityAt(lat))]],
         [kind |-> "json", tag |-> "noWind",
          current |-> [has |-> TRUE, wind_speed_10m |-> JUndef,
                       precipitation |-> JNum(RainAt(lat)), rain |-> JNum(RainAt(lat)),
                       temperature_2m |-> JNum(TempAt(lat)),
                       relative_humidity_2m |-> JNum(HumidityAt(lat))]]}
   ELSE {})

WeatherFailures == {Failure("reject"), Failure("unparsable")}
WeatherOutcomes(v, lat, lon) ==
  WeatherFailures \cup (IF v = "trend" THEN TrendBodies(lat, lon) ELSE MultiBodies(lat, lon))

(***************************************************************************)
(* Bodies of the feature service (lines 107, 392): elements missing,       *)
(* empty, or the features of the place.                                    *)
(***************************************************************************)
TreeBodies(lat, lon) ==
  {[kind |-> "json", tag |-> "missing", hasElements |-> FALSE, elements |-> <<>>],
   [kind |-> "json", tag |-> "empty", hasElements |-> TRUE, elements |-> <<>>]}
  \cup
  (IF isFinite(lat) /\ isFinite(lon)
   THEN {[kind |-> "json", tag |-> "some", hasElements |-> TRUE,
          elements |-> [i \in 1..TreesAt(lat) |-> i]]}
   ELSE {})
TreeOutcomes(lat, lon) == {Failure("reject"), Failure("unparsable")} \cup TreeBodies(lat, lon)

(***************************************************************************)
(* Shapes of the state.                                                    *)
(***************************************************************************)
NoCoords == [has |-> FALSE, lat |-> JNull, lon |-> JNull]
Coords(lat, lon) == [has |-> TRUE, lat |-> lat, lon |-> lon]
\* weatherData = null
NoWeather ==
  [has |-> FALSE, windSpeed |-> JUndef, precipitation |-> JUndef, rain |-> JUndef,
   temperature |-> JUndef, humidity |-> JUndef, isStormy |-> FALSE]
\* what ran last.  id: the fetchData call it belongs to; wx, tr: how that call's weather
\* and tree lookups ended; n: the elements the tree lookup returned; end: "fulfilled"
\* when the call's promise settled in this step
NoOp == [op |-> "mount", id |-> 0, wx |-> "", tr |-> "", n |-> 0, end |-> ""]
Op(name) == [NoOp EXCEPT !.op = name]

(***************************************************************************)
(* The risk estimator.  toFixed(1) yields a decimal string with one digit  *)
(* after the point: the model keeps it as the integer number of tenths.    *)
(***************************************************************************)
\* Math.random() is in [0, 1): the model draws it in tenths
RndDen == 10
RandomDraws == {0, 9}

\* n / d rounded to the nearest integer, halves away from zero (d > 0)
RoundDiv(n, d) ==
  LET a == IF n >= 0 THEN n ELSE -n
      q == a \div d + (IF 2 * (a % d) >= d THEN 1 ELSE 0)
  IN  IF n >= 0 THEN q ELSE -q

\* floor of the square root of n, by bisection on [lo, hi]
RECURSIVE SqrtBetween(_, _, _)
SqrtBetween(n, lo, hi) ==
  IF lo >= hi THEN lo
  ELSE LET mid == (lo + hi + 1) \div 2
       IN  IF mid * mid <= n THEN SqrtBetween(n, mid, hi) ELSE SqrtBetween(n, lo, mid - 1)
\* Math.pow(w, 1.5) in thousandths, for an integer w >= 0
Pow15Milli(w) == SqrtBetween(w * w * w * 1000000, 0, 46340)

\* coconutProbability (lines 135-144), linear-wind policy, with Math.random() = r / RndDen
coconutProbabilityOf(ws, td, te, r) ==
  IF ws # JNull /\ td # JNull
  THEN IF ~IsNum(ws) \/ ~IsNum(td)
       THEN JNaN
       ELSE LET num == ((10 + ws.v * 2) * RndDen + r * 5) * 5 * td.v * te
                den == RndDen * 20 * 1440
            IN  IF num >= 100 * den THEN JNum(1000) ELSE JNum(RoundDiv(10 * num, den))
  ELSE JNull
coconutProbability == coconutProbabilityOf(windSpeed, treeDensity, timeExposure, rnd)

\* a tier computed from a number rather than from toFixed's string: 0 is falsy
dangerLevelOfNumber(p) ==
  IF p # JNull /\ ~(IsNum(p) /\ p.v = 0)
  THEN IF Gt(p, 700) THEN "danger" ELSE IF Gt(p, 400) THEN "warning" ELSE "safe"
  ELSE ""
\* dangerLevel (lines 146-152): a non-null coconutProbability is a non-empty string, hence truthy
dangerLevelOf(p) ==
  IF p # JNull
  THEN IF Gt(p, 700) THEN "danger" ELSE IF Gt(p, 400) THEN "warning" ELSE "safe"
  ELSE ""
dangerLevel == dangerLevelOf(coconutProbability)

\* climateFactors (lines 354-360), in tenths
windImpact == 25
rainImpact == 13
stormImpact == 30
humidityImpact == 8
temperatureImpact == 11

\* calculateDanger (lines 431-448), power-law policy; risk is kept in thousandths
calculateDangerOf(wd, td, te) ==
  IF ~wd.has THEN JNull
  ELSE IF ~IsNum(wd.windSpeed) \/ wd.windSpeed.v < 0 \/ ~IsNum(td) THEN JNaN
  ELSE LET r0 == 10000 + (Pow15Milli(wd.windSpeed.v) * windImpact) \div 10
           r1 == IF Gt(wd.rain, 0) THEN (r0 * rainImpact) \div 10 ELSE r0
           r2 == IF wd.isStormy THEN (r1 * stormImpact) \div 10 ELSE r1
           r3 == IF Gt(wd.temperature, 30) THEN (r2 * temperatureImpact) \div 10 ELSE r2
           r4 == IF Lt(wd.humidity, 40) THEN (r3 * humidityImpact) \div 10 ELSE r3
           num == r4 * td.v * te
           den == 1000 * 15 * 120
       IN  IF num >= 100 * den THEN JNum(1000) ELSE JNum(RoundDiv(10 * num, den))
calculateDanger == calculateDangerOf(weatherData, treeDensity, timeExposure)

\* what the mounted component's estimator yields in this state
Probability == IF variant = "trend" THEN coconutProbability ELSE calculateDanger
\* what it yields, and the tier shown, at the render that follows a step
ProbabilityAfter ==
  IF variant' = "trend"
  THEN coconutProbabilityOf(windSpeed', treeDensity', timeExposure', rnd')
  ELSE calculateDangerOf(weatherData', treeDensity', timeExposure')
dangerLevelAfter ==
  dangerLevelOf(coconutProbabilityOf(windSpeed', treeDensity', timeExposure', rnd'))

(***************************************************************************)
(* Rendering: a handler that sets state re-renders the component, and the  *)
(* trend component's render draws Math.random() anew when it evaluates     *)
(* coconutProbability's formula (line 139).                                *)
(***************************************************************************)
Render ==
  rnd' \in IF variant = "trend" /\ windSpeed' # JNull /\ treeDensity' # JNull
           THEN RandomDraws ELSE {rnd}

(***************************************************************************)
(* The geolocation effect (lines 119-126, 406-413).  It runs on mount and  *)
(* whenever useManual or fetchData changes; fetchData changes when         *)
(* useManualTrees does (line 403).  The callback keeps the fetchData of    *)
(* the render that issued the request, hence that render's useManualTrees. *)
(***************************************************************************)
GeoTotal == geoPending[FALSE] + geoPending[TRUE]
GeoRoom == issued + GeoTotal < limit
GeoEffect(manual, umt) ==
  geoPending' = IF ~manual THEN [geoPending EXCEPT ![umt] = @ + 1] ELSE geoPending

Setup(calls_, overlap_) ==
  /\ limit = calls_
  /\ overlap = overlap_
  /\ variant \in {"trend", "multi"}
  /\ coords = NoCoords
  /\ windSpeed = JNull
  /\ weatherData = NoWeather
  /\ treeDensity = IF variant = "trend" THEN JNull ELSE JNum(5)
  /\ timeExposure = 30
  /\ manualLat = TxtEmpty
  /\ manualLon = TxtEmpty
  /\ useManual = FALSE
  /\ useManualTrees = FALSE
  /\ isLoading = FALSE
  /\ windHistory = <<>>
  /\ factIndex = 0
  /\ rnd = 0
  /\ geoPending = [b \in BOOLEAN |-> IF b THEN 0 ELSE 1]
  /\ calls = {}
  /\ issued = 0
  /\ lastOp = NoOp

\* the state after mount, resolutions free to overlap
Init == Setup(MaxCalls, TRUE)
\* resolutions one at a time: none starts while another is in flight
SeqInit == Setup(MaxCalls, FALSE)
\* a single resolution
SoloInit == Setup(MaxSolo, TRUE)

(***************************************************************************)
(* fetchData (lines 73-117, 368-403).                                      *)
(***************************************************************************)
\* Up to the first await: setIsLoading(true), [setWeatherData(null),] setCoords, fetch(weatherUrl)
FetchDataStart(lat, lon, umt) ==
  /\ issued < limit
  /\ overlap \/ calls = {}
  /\ issued' = issued + 1
  /\ isLoading' = TRUE
  /\ weatherData' = IF variant = "multi" THEN NoWeather ELSE weatherData
  /\ coords' = Coords(lat, lon)
  /\ calls' = calls \cup {[id |-> issued + 1, lat |-> lat, lon |-> lon, umt |-> umt,
                           pc |-> "weather", wx |-> ""]}
  /\ UNCHANGED <<windSpeed, treeDensity, windHistory>>

\* How a request ended, as the call remembers it: the weather lookup "failed" (the
\* request or its parsing threw) or gave a body of some shape; the tree lookup
\* "failed", gave no elements ("none": missing or empty) or "some".
WeatherClass(out) == IF out.kind # "json" THEN "failed" ELSE out.tag
TreeClass(out) ==
  IF out.kind # "json" THEN "failed"
  ELSE IF out.hasElements /\ Len(out.elements) >= 1 THEN "some" ELSE "none"

\* dailySpeeds (lines 95-102): the speeds at the timestamps ending in "12:00"
RECURSIVE DailySpeeds(_, _, _)
DailySpeeds(hours, speeds, i) ==
  IF i > Len(hours) THEN <<>>
  ELSE (IF EndsWith1200(hours[i]) THEN <<speeds[i]>> ELSE <<>>)
       \o DailySpeeds(hours, speeds, i + 1)
\* s.slice(-5) (line 103)
HistoryLen == 5
\* slice(0, 5) in place of slice(-5): the oldest samples are the ones kept
SliceFirst(s) == SubSeq(s, 1, IF Len(s) > HistoryLen THEN HistoryLen ELSE Len(s))
SliceLast(s) == SubSeq(s, IF Len(s) > HistoryLen THEN Len(s) - HistoryLen + 1 ELSE 1, Len(s))

\* elements?.length ?? 5 in place of || 5: an empty array counts 0
TreeCountOfEmptyIsZero(body) == IF body.hasElements THEN Len(body.elements) ELSE 5
\* treeJson.elements?.length || 5 (lines 110, 395)
TreeCount(body) ==
  IF body.hasElements /\ Len(body.elements) # 0 THEN Len(body.elements) ELSE 5
\* the fallback of the catch block (lines 113, 399)
Fallback == 5

\* the finally block left out: the call ends and the flag stays
SettleKeepsLoading(c) ==
  /\ calls' = calls \ {c}
  /\ UNCHANGED isLoading
\* finally { setIsLoading(false) } (lines 114-116, 400-402), and the promise of call c
\* is fulfilled: nothing is thrown past the catch block
Settle(c) ==
  /\ isLoading' = FALSE
  /\ calls' = calls \ {c}
\* call c waits for its next request
Await(c, where, wx) ==
  /\ calls' = (calls \ {c}) \cup {[c EXCEPT !.pc = where, !.wx = wx]}
  /\ UNCHANGED isLoading
\* whether call c ended in the step
EndOf(c) == IF c.id \in {d.id : d \in calls'} THEN "" ELSE "fulfilled"

\* the catch block and finally (lines 111-116, 397-402)
Catch(c) ==
  /\ treeDensity' = JNum(Fallback)
  /\ Settle(c)

\* the trend component's continuation after the weather request (lines 86-108)
WeatherTrend(c, out) ==
  /\ UNCHANGED weatherData
  /\ IF out.kind # "json"
     THEN /\ Catch(c)
          /\ UNCHANGED <<windSpeed, windHistory>>
     ELSE /\ windSpeed' = IF out.current_weather.has
                          THEN out.current_weather.windspeed ELSE windSpeed
          /\ IF out.hourly.has
             THEN IF out.hourly.hasTime
                  THEN /\ windHistory' =
                            SliceLast(DailySpeeds(out.hourly.time, out.hourly.speeds, 1))
                       /\ Await(c, "tree", WeatherClass(out))
                       /\ UNCHANGED treeDensity
                  \* hours is undefined: hours.length throws a TypeError
                  ELSE /\ Catch(c)
                       /\ UNCHANGED windHistory
             ELSE /\ Await(c, "tree", WeatherClass(out))
                  /\ UNCHANGED <<windHistory, treeDensity>>

\* the multi-factor component's continuation after the weather request (lines 376-393)
WeatherMulti(c, out) ==
  /\ UNCHANGED <<windSpeed, windHistory>>
  /\ IF out.kind # "json"
     THEN /\ Catch(c)
          /\ UNCHANGED weatherData
     ELSE /\ weatherData' =
               IF out.current.has
               THEN [has |-> TRUE,
                     windSpeed |-> out.current.wind_speed_10m,
                     precipitation |-> out.current.precipitation,
                     rain |-> out.current.rain,
                     temperature |-> out.current.temperature_2m,
                     humidity |-> out.current.relative_humidity_2m,
                     isStormy |-> Gt(out.current.wind_speed_10m, 8)]
               ELSE weatherData
          /\ UNCHANGED treeDensity
          /\ IF ~c.umt THEN Await(c, "tree", WeatherClass(out)) ELSE Settle(c)

WeatherResponse(c, out) ==
  /\ c \in calls
  /\ c.pc = "weather"
  /\ out \in WeatherOutcomes(variant, c.lat, c.lon)
  /\ IF variant = "trend" THEN WeatherTrend(c, out) ELSE WeatherMulti(c, out)
  /\ lastOp' = [op |-> "weather", id |-> c.id, wx |-> WeatherClass(out), tr |-> "", n |-> 0,
                end |-> EndOf(c)]
  /\ UNCHANGED <<variant, coords, timeExposure, manualLat, manualLon, useManual,
                 useManualTrees, factIndex, geoPending, issued, limit, overlap>>
  /\ Render

\* the continuation after the tree request (lines 108-110, 393-395), then finally
TreeResponse(c, out) ==
  /\ c \in calls
  /\ c.pc = "tree"
  /\ out \in TreeOutcomes(c.lat, c.lon)
  /\ IF out.kind # "json"
     THEN Catch(c)
     ELSE /\ treeDensity' = JNum(TreeCount(out))
          /\ Settle(c)
  /\ lastOp' = [op |-> "tree", id |-> c.id, wx |-> c.wx, tr |-> TreeClass(out),
                n |-> IF out.kind = "json" THEN Len(out.elements) ELSE 0,
                end |-> EndOf(c)]
  /\ UNCHANGED <<variant, coords, windSpeed, weatherData, timeExposure, manualLat,
                 manualLon, useManual, useManualTrees, windHistory, factIndex,
                 geoPending, issued, limit, overlap>>
  /\ Render

(***************************************************************************)
(* Geolocation callbacks (lines 122-123, 409-410).                         *)
(***************************************************************************)
GeoSuccess(umt) ==
  /\ geoPending[umt] > 0
  /\ geoPending' = [geoPending EXCEPT ![umt] = @ - 1]
  /\ FetchDataStart(GeoLat, GeoLon, umt)
  /\ lastOp' = [Op("geoSuccess") EXCEPT !.id = issued + 1]
  /\ UNCHANGED <<variant, timeExposure, manualLat, manualLon, useManual, useManualTrees,
                 factIndex, limit, overlap>>
  /\ Render

\* an error callback that also resets the view
GeoErrorResets(umt) ==
  /\ geoPending[umt] > 0
  /\ geoPending' = [geoPending EXCEPT ![umt] = @ - 1]
  /\ lastOp' = Op("geoError")
  /\ coords' = NoCoords
  /\ isLoading' = FALSE
  /\ UNCHANGED <<variant, windSpeed, weatherData, treeDensity, timeExposure,
                 manualLat, manualLon, useManual, useManualTrees, windHistory,
                 factIndex, rnd, calls, issued, limit, overlap>>
\* console.error only
GeoError(umt) ==
  /\ geoPending[umt] > 0
  /\ geoPending' = [geoPending EXCEPT ![umt] = @ - 1]
  /\ lastOp' = Op("geoError")
  /\ UNCHANGED <<variant, coords, windSpeed, weatherData, treeDensity, timeExposure,
                 manualLat, manualLon, useManual, useManualTrees, isLoading, windHistory,
                 factIndex, rnd, calls, issued, limit, overlap>>

(***************************************************************************)
(* The manual-coordinate controls (lines 203-236).  The form is rendered   *)
(* in manual mode only.                                                    *)
(***************************************************************************)
ToggleManual ==
  \* switching back to automatic issues a geolocation request
  /\ ~useManual \/ GeoRoom
  /\ useManual' = ~useManual
  /\ GeoEffect(useManual', useManualTrees)
  /\ lastOp' = Op("toggleManual")
  /\ UNCHANGED <<variant, coords, windSpeed, weatherData, treeDensity, timeExposure,
                 manualLat, manualLon, useManualTrees, isLoading, windHistory, factIndex,
                 calls, issued, limit, overlap>>
  /\ Render

SetManualLat(text) ==
  /\ useManual
  /\ manualLat' = text
  /\ lastOp' = Op("setManualLat")
  /\ UNCHANGED <<variant, coords, windSpeed, weatherData, treeDensity, timeExposure,
                 manualLon, useManual, useManualTrees, isLoading, windHistory, factIndex,
                 geoPending, calls, issued, limit, overlap>>
  /\ Render

SetManualLon(text) ==
  /\ useManual
  /\ manualLon' = text
  /\ lastOp' = Op("setManualLon")
  /\ UNCHANGED <<variant, coords, windSpeed, weatherData, treeDensity, timeExposure,
                 manualLat, useManual, useManualTrees, isLoading, windHistory, factIndex,
                 geoPending, calls, issued, limit, overlap>>
  /\ Render

\* || in place of &&: one number is enough
AcceptsEither(lat, lon) == ~isNaN(lat) \/ ~isNaN(lon)
\* the test of line 132 / 423
Accepts(lat, lon) == ~isNaN(lat) /\ ~isNaN(lon)

\* handleManualSubmit (lines 128-133, 419-424)
handleManualSubmit ==
  /\ useManual
  /\ LET lat == parseFloat(manualLat)
         lon == parseFloat(manualLon)
     IN  IF Accepts(lat, lon)
         THEN /\ FetchDataStart(lat, lon, useManualTrees)
              /\ lastOp' = [Op("submit") EXCEPT !.id = issued + 1]
              /\ Render
         ELSE /\ lastOp' = Op("submitIgnored")
              /\ UNCHANGED <<coords, windSpeed, weatherData, treeDensity, isLoading,
                             windHistory, rnd, calls, issued>>
  /\ UNCHANGED <<variant, timeExposure, manualLat, manualLon, useManual, useManualTrees,
                 factIndex, geoPending, limit, overlap>>

(***************************************************************************)
(* The trend component's number fields (lines 259-282), rendered when no   *)
(* load is shown and a coordinate is set (lines 238-242).                  *)
(***************************************************************************)
FieldsShown == ~isLoading /\ coords.has

\* setTreeDensity(parseInt(e.target.value) || 5)
EditTreeCount(text) ==
  /\ variant = "trend"
  /\ FieldsShown
  /\ treeDensity' = JNum(OrElse(parseInt(text), 5))
  /\ lastOp' = Op("editTreeCount")
  /\ UNCHANGED <<variant, coords, windSpeed, weatherData, timeExposure, manualLat,
                 manualLon, useManual, useManualTrees, isLoading, windHistory, factIndex,
                 geoPending, calls, issued, limit, overlap>>
  /\ Render

\* setTimeExposure(parseInt(e.target.value) || 0)
EditExposure(text) ==
  /\ variant = "trend"
  /\ FieldsShown
  /\ timeExposure' = OrElse(parseInt(text), 0)
  /\ lastOp' = Op("editExposure")
  /\ UNCHANGED <<variant, coords, windSpeed, weatherData, treeDensity, manualLat,
                 manualLon, useManual, useManualTrees, isLoading, windHistory, factIndex,
                 geoPending, calls, issued, limit, overlap>>
  /\ Render

(***************************************************************************)
(* The multi-factor component's controls.  Its rendering code is not part  *)
(* of the source (line 449); the controls are those its state and the      *)
(* specification name: a toggle of the manual tree count, and a tree-count *)
(* field that takes a count >= 1 while the override is on.                 *)
(***************************************************************************)
ManualTreeCounts == {12}

\* setUseManualTrees(!useManualTrees); fetchData is rebuilt (line 403) and the
\* geolocation effect, which depends on it (line 413), runs again
ToggleManualTrees ==
  /\ variant = "multi"
  /\ useManual \/ GeoRoom
  /\ useManualTrees' = ~useManualTrees
  /\ GeoEffect(useManual, useManualTrees')
  /\ lastOp' = Op("toggleManualTrees")
  /\ UNCHANGED <<variant, coords, windSpeed, weatherData, treeDensity, timeExposure,
                 manualLat, manualLon, useManual, isLoading, windHistory, factIndex,
                 rnd, calls, issued, limit, overlap>>

EnterTreeCount(n) ==
  /\ variant = "multi"
  /\ useManualTrees
  /\ treeDensity' = JNum(n)
  /\ lastOp' = Op("enterTreeCount")
  /\ UNCHANGED <<variant, coords, windSpeed, weatherData, timeExposure, manualLat,
                 manualLon, useManual, useManualTrees, isLoading, windHistory, factIndex,
                 rnd, geoPending, calls, issued, limit, overlap>>

(***************************************************************************)
(* The fun-fact timer (lines 155-160).                                     *)
(***************************************************************************)
\* coconutFacts.length (lines 25-41)
FactCount == 15
Tick ==
  /\ variant = "trend"
  /\ factIndex' = (factIndex + 1) % FactCount
  /\ lastOp' = Op("tick")
  /\ UNCHANGED <<variant, coords, windSpeed, weatherData, treeDensity, timeExposure,
                 manualLat, manualLon, useManual, useManualTrees, isLoading, windHistory,
                 geoPending, calls, issued, limit, overlap>>
  /\ Render

(***************************************************************************)
(* Specifications.                                                         *)
(***************************************************************************)
Next ==
  \/ \E umt \in BOOLEAN : GeoSuccess(umt)
  \/ \E umt \in BOOLEAN : GeoError(umt)
  \/ ToggleManual
  \/ \E text \in LatTexts : SetManualLat(text)
  \/ \E text \in LonTexts : SetManualLon(text)
  \/ handleManualSubmit
  \/ \E c \in calls : \E out \in WeatherOutcomes(variant, c.lat, c.lon) : WeatherResponse(c, out)
  \/ \E c \in calls : \E out \in TreeOutcomes(c.lat, c.lon) : TreeResponse(c, out)
  \/ \E text \in TreeTexts : EditTreeCount(text)
  \/ \E text \in ExposureTexts : EditExposure(text)
  \/ ToggleManualTrees
  \/ \E n \in ManualTreeCounts : EnterTreeCount(n)

Spec == Init /\ [][Next]_vars
SeqSpec == SeqInit /\ [][Next]_vars
SoloSpec == SoloInit /\ [][Next]_vars

(***************************************************************************)
(* Fairness: every request in flight is answered (resolved or rejected).   *)
(***************************************************************************)
Answered(i) ==
  \E c \in calls :
    /\ c.id = i
    /\ \/ \E out \in WeatherOutcomes(variant, c.lat, c.lon) : WeatherResponse(c, out)
       \/ \E out \in TreeOutcomes(c.lat, c.lon) : TreeResponse(c, out)
\* resolutions one at a time, each request answered
LiveInit == Setup(MaxSolo, FALSE)
LiveSpec == LiveInit /\ [][Next]_vars /\ \A i \in 1..MaxCalls : WF_vars(Answered(i))

(***************************************************************************)
(* Properties.                                                             *)
(***************************************************************************)
InFlight(i) == \E c \in calls : c.id = i
\* the step is a continuation of a fetchData call
Continues == lastOp'.op \in {"weather", "tree"}
\* a later call has been issued than the one that ran last
Stale(op) == op.op \in {"weather", "tree"} /\ op.id < issued

\* C1: once a later resolution has been issued, no continuation of an earlier one
\* writes the weather, the wind history or the tree density.
C1_NoStaleResponseApplied ==
  [][Stale(lastOp') => UNCHANGED <<windSpeed, weatherData, windHistory, treeDensity>>]_vars

\* C2: when a resolution whose weather lookup failed (request or parsing failed, or the
\* body has no current-weather block) has settled, the estimator yields no result.
C2_FailedWeatherNoResult ==
  (lastOp.end = "fulfilled" /\ lastOp.wx \in {"failed", "noBlock"}) => Probability = JNull

\* C3: in the multi-factor component, while useManualTrees is on, no continuation of a
\* resolution changes treeDensity.
C3_OverrideKeepsTreeDensity ==
  [][(variant = "multi" /\ useManualTrees /\ Continues) => treeDensity' = treeDensity]_vars

\* C4: when a resolution's tree lookup has been answered, treeDensity is 5 if the lookup
\* failed or returned no elements, and the number n of elements if it returned n >= 1.
C4_TreeCountOrFallback ==
  lastOp.op = "tree" =>
    /\ lastOp.end = "fulfilled"
    /\ lastOp.tr \in {"failed", "none"} => treeDensity = JNum(5)
    /\ lastOp.tr = "some" => lastOp.n >= 1 /\ treeDensity = JNum(lastOp.n)
C4_Witness == lastOp.op = "tree" /\ lastOp.tr = "none" /\ lastOp.end = "fulfilled"

\* C5: whenever the estimator yields a result, treeDensity is an integer >= 0.
C5_TreeDensityNonNegative ==
  Probability # JNull => IsNum(treeDensity) /\ treeDensity.v >= 0

\* C6: a probability that is a number lies in [0, 100] (tenths: 0..1000).
C6_ProbabilityInRange ==
  IsNum(Probability) => Probability.v >= 0 /\ Probability.v <= 1000

\* C7: a manual submission whose latitude or longitude text parses to NaN leaves the
\* coordinate, weather, wind history, tree density and loading flag as they were and
\* starts no call.
C7_UnparsedSubmitChangesNothing ==
  [][(lastOp'.op \in {"submit", "submitIgnored"}
      /\ (isNaN(parseFloat(manualLat)) \/ isNaN(parseFloat(manualLon))))
     => UNCHANGED <<coords, windSpeed, weatherData, windHistory, treeDensity, isLoading,
                    calls, issued, geoPending>>]_vars
C7_Witness ==
  /\ lastOp.op = "submitIgnored"
  /\ coords.has
  /\ isNaN(parseFloat(manualLat)) \/ isNaN(parseFloat(manualLon))

\* C8: a manual submission starts a resolution only if both texts parse to finite numbers.
C8_OnlyFiniteSubmitStarts ==
  lastOp.op = "submit" => isFinite(parseFloat(manualLat)) /\ isFinite(parseFloat(manualLon))

\* C9: a failed geolocation request sets no coordinate, starts no call and leaves the
\* session state and the estimator's output as they were.
C9_GeoErrorChangesNothing ==
  [][lastOp'.op = "geoError"
     => /\ UNCHANGED <<coords, windSpeed, weatherData, windHistory, treeDensity,
                       timeExposure, isLoading, calls, issued>>
        /\ ProbabilityAfter = Probability]_vars
C9_Witness == lastOp.op = "geoError" /\ coords.has /\ Probability # JNull

\* C10: every call that was started settles, and a call that settled has set the loading
\* flag to false.
C10_EveryCallSettles ==
  /\ \A i \in 1..MaxCalls : InFlight(i) ~> ~InFlight(i)
  /\ [](lastOp.op \in {"weather", "tree"} /\ ~InFlight(lastOp.id)
        => lastOp.end = "fulfilled" /\ ~isLoading)
C10_Witness == lastOp.end = "fulfilled" /\ lastOp.wx = "failed" /\ ~isLoading

\* a call started by a manual submission, hence after a switch to manual mode: the
\* texts the form takes never parse to the device's position
StartedByForm(c) == c.lat # GeoLat

\* results have been computed: a coordinate is set and the estimator yields a result
HasResults == coords.has /\ Probability # JNull

\* C11: once results have been computed, switching between automatic and manual
\* coordinates, starting a resolution from the form, and a failure of such a resolution
\* each leave coordinate, weather, tree density and the estimator's result as they were.
C11_ToggleKeepsResults ==
  [][/\ (HasResults /\ lastOp'.op \in {"toggleManual", "submit"})
          => /\ UNCHANGED <<coords, windSpeed, weatherData, treeDensity>>
             /\ ProbabilityAfter = Probability
     /\ \A c \in calls :
          (HasResults /\ Continues /\ lastOp'.id = c.id /\ lastOp'.wx = "failed"
           /\ StartedByForm(c))
            => /\ UNCHANGED <<windSpeed, weatherData, treeDensity>>
               /\ ProbabilityAfter = Probability]_vars

\* the midday samples of the HistoryLen most recent days at a latitude, oldest first
ExpectedHistory(lat) ==
  LET d == DaysAt(lat)
      k == IF d > HistoryLen THEN HistoryLen ELSE d
  IN  [i \in 1..k |-> WindAt(lat) + (d - k + i)]

EstWinds == {0, 2, 4, 8, 9}
EstTrees(v) == IF v = "trend" THEN {5, 16, 20} ELSE {1, 5}
EstExposures(v) == IF v = "trend" THEN {0, 30, 720, 1440} ELSE {0, 30, 120}
\* the object of lines 380-387
SnapshotOf(w, rain, temp, hum) ==
  [has |-> TRUE, windSpeed |-> w, precipitation |-> rain, rain |-> rain,
   temperature |-> temp, humidity |-> hum, isStormy |-> Gt(w, 8)]
EstSnapshots ==
  {SnapshotOf(JNum(w), JNum(rain), JNum(temp), JNum(hum)) :
     w \in EstWinds, rain \in {0, 2}, temp \in {20, 31}, hum \in {35, 50}}

EstimatorInit ==
  /\ limit = 0
  /\ overlap = FALSE
  /\ variant \in {"trend", "multi"}
  /\ coords = Coords(GeoLat, GeoLon)
  /\ windSpeed \in IF variant = "trend"
                   THEN {JNull, JUndef} \cup {JNum(w) : w \in EstWinds} ELSE {JNull}
  /\ weatherData \in IF variant = "trend" THEN {NoWeather} ELSE {NoWeather} \cup EstSnapshots
  /\ treeDensity \in {JNum(t) : t \in EstTrees(variant)}
  /\ timeExposure \in EstExposures(variant)
  /\ manualLat = TxtEmpty
  /\ manualLon = TxtEmpty
  /\ useManual = FALSE
  /\ useManualTrees = FALSE
  /\ isLoading = FALSE
  /\ windHistory = <<>>
  /\ factIndex = 0
  /\ rnd \in IF variant = "trend" /\ windSpeed # JNull THEN RandomDraws ELSE {0}
  /\ geoPending = [b \in BOOLEAN |-> 0]
  /\ calls = {}
  /\ issued = 0
  /\ lastOp = NoOp
EstimatorSpec == EstimatorInit /\ [][Tick]_vars

\* C13: whenever the estimator yields a number p (0.0 included) the tier is safe for
\* p <= 40, warning for 40 < p <= 70, danger for p > 70, and the tier is absent exactly
\* when the probability is.
C13_TierFromProbability ==
  variant = "trend" =>
    /\ IsNum(coconutProbability) =>
         dangerLevel = IF coconutProbability.v <= 400 THEN "safe"
                       ELSE IF coconutProbability.v <= 700 THEN "warning" ELSE "danger"
    /\ coconutProbability # JNull => dangerLevel \in {"safe", "warning", "danger"}
    /\ coconutProbability = JNull => dangerLevel = ""
C13_Witness ==
  variant = "trend" /\ lastOp.op = "tick" /\ coconutProbability = JNum(0) /\ dangerLevel = "safe"

\* p and q are numbers and q is smaller than p
Smaller(q, p) == IsNum(p) /\ IsNum(q) /\ q.v < p.v
\* the state's weather with the wind speed replaced, isStormy derived anew (line 386)
WithWind(wd, w) == SnapshotOf(JNum(w), wd.rain, wd.temperature, wd.humidity)

\* C14: an evaluation of the estimator with the wind speed, the tree count or the minutes
\* of exposure raised and the other two as they are never yields a smaller probability
\* than the one this render shows (linear-wind policy: over the draws of Math.random()).
C14_Monotone ==
  /\ (lastOp.op = "tick" /\ variant = "trend" /\ IsNum(windSpeed) /\ IsNum(treeDensity)) =>
       \A r \in RandomDraws :
         /\ \A w \in EstWinds : w > windSpeed.v =>
              ~Smaller(coconutProbabilityOf(JNum(w), treeDensity, timeExposure, r),
                       coconutProbability)
         /\ \A t \in EstTrees(variant) : t > treeDensity.v =>
              ~Smaller(coconutProbabilityOf(windSpeed, JNum(t), timeExposure, r),
                       coconutProbability)
         /\ \A e \in EstExposures(variant) : e > timeExposure =>
              ~Smaller(coconutProbabilityOf(windSpeed, treeDensity, e, r),
                       coconutProbability)
  /\ (variant = "multi" /\ weatherData.has /\ IsNum(weatherData.windSpeed)) =>
         /\ \A w \in EstWinds : w > weatherData.windSpeed.v =>
              ~Smaller(calculateDangerOf(WithWind(weatherData, w), treeDensity, timeExposure),
                       calculateDanger)
         /\ \A t \in EstTrees(variant) : t > treeDensity.v =>
              ~Smaller(calculateDangerOf(weatherData, JNum(t), timeExposure), calculateDanger)
         /\ \A e \in EstExposures(variant) : e > timeExposure =>
              ~Smaller(calculateDangerOf(weatherData, treeDensity, e), calculateDanger)

\* C15: two evaluations of the estimator with the same weather, tree count and minutes of
\* exposure yield the same probability and the same tier.
C15_Deterministic ==
  [][UNCHANGED <<windSpeed, weatherData, treeDensity, timeExposure>>
       => /\ ProbabilityAfter = Probability
          /\ dangerLevelAfter = dangerLevel]_vars

(***************************************************************************)
(* The component with its fun-fact timer running.                          *)
(***************************************************************************)
TimerNext == Next \/ Tick
TimerSpec == SoloInit /\ [][TimerNext]_vars

\* C16: a tick of the fun-fact timer advances factIndex cyclically within 0..FactCount-1
\* and leaves coordinate, weather, wind history, tree count, exposure, loading flag and
\* the displayed probability and tier as they were.
C16_TickChangesOnlyFactIndex ==
  /\ [](factIndex \in 0..(FactCount - 1))
  /\ [][lastOp'.op = "tick"
          => /\ factIndex' = (factIndex + 1) % FactCount
             /\ UNCHANGED <<coords, windSpeed, weatherData, windHistory, treeDensity,
                            timeExposure, isLoading>>
             /\ ProbabilityAfter = Probability
             /\ dangerLevelAfter = dangerLevel]_vars

\* C17: a call in automatic tree mode settles only with the answer to its tree request,
\* whatever its weather request gave, the tree count being the one of C4; and the
\* continuation that consumes the tree answer leaves the weather as it was.
C17_TreeLookupIndependent ==
  [][\A c \in calls :
       (Continues /\ lastOp'.id = c.id /\ ~c.umt)
         => /\ lastOp'.end = "fulfilled" => lastOp'.op = "tree"
            /\ lastOp'.op = "tree" => UNCHANGED <<windSpeed, weatherData, windHistory>>]_vars

\* the wind speed the estimator reads
WindInput == IF variant = "trend" THEN windSpeed ELSE weatherData.windSpeed

\* C18: when a call whose weather response had the current-weather block without the
\* wind-speed field has settled, the wind speed is unset (not a number) and the
\* estimator yields no result.
C18_NoWindNoResult ==
  (lastOp.end = "fulfilled" /\ lastOp.wx = "noWind")
    => /\ ~IsNum(WindInput)
       /\ Probability = JNull

\* C19: the loading flag is true whenever a call is in flight.
C19_LoadingWhileInFlight == calls # {} => isLoading

\* C20: in manual-coordinate mode the device's position starts no call and replaces no
\* coordinate.
C20_ManualModeIgnoresSensor ==
  [][(useManual /\ lastOp'.op = "geoSuccess")
       => /\ UNCHANGED <<coords, calls, issued>>]_vars

====
